---- MODULE Spec2Model ----
(***************************************************************************)
(* State-machine model of src/sitemap_validator.py: SitemapValidator       *)
(* (validate, _parse_sitemap, _validate_urls, _check_url, _get_valid_urls). *)
(* The call stack of validators is `stack`; the futures of the thread pool *)
(* of the validator on top of the stack are `futures`.  The web (sitemap   *)
(* documents and the answers of the page URLs) is the input, fixed in Init.*)
(***************************************************************************)
EXTENDS Integers, Sequences, FiniteSets, TLC

VARIABLES web, stack, futures, fetched, returned, runs

vars == <<web, stack, futures, fetched, returned, runs>>

-----------------------------------------------------------------------------
(* Bounds of the model *)

MaxUrls == 2
MaxChildren == 2
MaxWorkers == 2
MaxRuns == 2
MaxDepth == 4

-----------------------------------------------------------------------------
(* Values *)

Range(s) == {s[i] : i \in 1..Len(s)}

SeqUpTo(S, n) == UNION {[1..k -> S] : k \in 0..n}

RECURSIVE SumSeq(_)
SumSeq(s) == IF s = <<>> THEN 0 ELSE Head(s) + SumSeq(Tail(s))

\* A response of the network: an exception raised by requests, or a status.
Response(exc, status, ctype, body) ==
    [exc |-> exc, status |-> status, ctype |-> ctype, body |-> body]

NoBody == [wellformed |-> FALSE, sitemaps |-> <<>>, urls |-> <<>>]

Document(sitemaps, urls) == [wellformed |-> TRUE, sitemaps |-> sitemaps, urls |-> urls]

\* An entry of results["errors"]: the message's template and what it formats.
ErrorString(kind, url, status, cause) ==
    [kind |-> kind, url |-> url, status |-> status, cause |-> cause]

-----------------------------------------------------------------------------
(* The page URLs of the model and what the network answers for them *)

LeafLocs ==
    { "http://h/ok", "http://h/empty", "http://h/hidden", "http://h/nohead",
      "http://h/forbid", "http://h/gone", "http://h/err", "http://h/slow",
      "http://h/drop", "not-a-url", "//h/p", "http:///p", "http://[bad",
      " http://h/ok ", " ", "" }

\* the page URLs that fill the other entries of a regular sitemap
CoLocs == {"http://h/ok", "http://h/slow", "not-a-url"}

NetHead(url) ==
    CASE url = "http://h/ok"     -> Response("", 200, "", NoBody)
      [] url = "http://h/empty"  -> Response("", 204, "", NoBody)
      [] url = "http://h/hidden" -> Response("", 404, "", NoBody)
      [] url = "http://h/nohead" -> Response("", 405, "", NoBody)
      [] url = "http://h/forbid" -> Response("", 403, "", NoBody)
      [] url = "http://h/gone"   -> Response("", 404, "", NoBody)
      [] url = "http://h/err"    -> Response("", 500, "", NoBody)
      [] url = "http://h/slow"   -> Response("Timeout", 0, "", NoBody)
      [] url = "http://h/drop"   -> Response("", 405, "", NoBody)
      [] OTHER                   -> Response("ConnectionError", 0, "", NoBody)

NetGet(url) ==
    CASE url = "http://h/ok"     -> Response("", 200, "", NoBody)
      [] url = "http://h/empty"  -> Response("", 204, "", NoBody)
      [] url = "http://h/hidden" -> Response("", 200, "", NoBody)
      [] url = "http://h/nohead" -> Response("", 200, "", NoBody)
      [] url = "http://h/forbid" -> Response("", 403, "", NoBody)
      [] url = "http://h/gone"   -> Response("", 404, "", NoBody)
      [] url = "http://h/err"    -> Response("", 500, "", NoBody)
      [] url = "http://h/slow"   -> Response("Timeout", 0, "", NoBody)
      [] url = "http://h/drop"   -> Response("Timeout", 0, "", NoBody)
      [] OTHER                   -> Response("ConnectionError", 0, "", NoBody)

\* requests.exceptions.RequestException and its subclasses
RequestExceptions == {"Timeout", "ConnectionError"}

\* urllib.parse.urlparse: the scheme and the netloc, or a ValueError
urlparse(url) ==
    CASE url = "not-a-url"   -> [raises |-> "", scheme |-> "", netloc |-> ""]
      [] url = ""            -> [raises |-> "", scheme |-> "", netloc |-> ""]
      [] url = "//h/p"       -> [raises |-> "", scheme |-> "", netloc |-> "h"]
      [] url = "http:///p"   -> [raises |-> "", scheme |-> "http", netloc |-> ""]
      [] url = "http://[bad" -> [raises |-> "ValueError", scheme |-> "", netloc |-> ""]
      [] OTHER               -> [raises |-> "", scheme |-> "http", netloc |-> "h"]

-----------------------------------------------------------------------------
(* SitemapValidator *)

DefaultTimeout == 10
DefaultUserAgent == "SitemapValidator/1.0"

\* __init__
NewValidator(sitemap_url, timeout, max_workers, user_agent) ==
    [ sitemap_url |-> sitemap_url,
      timeout     |-> timeout,
      max_workers |-> max_workers,
      headers     |-> user_agent,
      results     |-> [valid_urls |-> 0, invalid_urls |-> 0, total_urls |-> 0,
                       errors |-> <<>>],
      processed   |-> <<>>,
      pc          |-> "fetch",
      tags        |-> <<>>,
      idx         |-> 0,
      urls        |-> <<>> ]

AppendError(v, e) ==
    [v EXCEPT !.results.errors = Append(@, e)]

\* validate: except Exception as e
OnException(v, cause) ==
    [AppendError(v, ErrorString("Validation failed", "", 0, cause))
        EXCEPT !.pc = "return"]

\* the status test as >= 400
FetchFailedOnErrorStatus(r) == r.status >= 400

\* validate: the status test of the fetched response
FetchFailed(r) == r.status # 200

\* validate: the content-type test
IsXml(ctype) == ctype \in {"application/xml", "text/xml", "TEXT/XML"}

\* validate returning after the content-type warning
AfterFetchXmlOnly(v, r) ==
    IF r.exc # "" THEN OnException(v, r.exc)
    ELSE IF FetchFailed(r)
    THEN [AppendError(v, ErrorString("Failed to fetch sitemap", "", r.status, ""))
            EXCEPT !.pc = "return"]
    ELSE IF ~IsXml(r.ctype)
    THEN [AppendError(v, ErrorString("Sitemap is not XML", "", 0, r.ctype))
            EXCEPT !.pc = "return"]
    ELSE [v EXCEPT !.pc = "parse"]

\* validate, from the fetch to the call of _parse_sitemap
AfterFetch(v, r) ==
    IF r.exc # "" THEN OnException(v, r.exc)
    ELSE IF FetchFailed(r)
    THEN [AppendError(v, ErrorString("Failed to fetch sitemap", "", r.status, ""))
            EXCEPT !.pc = "return"]
    ELSE IF ~IsXml(r.ctype)
    THEN [AppendError(v, ErrorString("Sitemap is not XML", "", 0, r.ctype))
            EXCEPT !.pc = "parse"]
    ELSE [v EXCEPT !.pc = "parse"]

\* str.strip on the locations of the model
Strip(text) ==
    CASE text = " " -> ""
      [] text = " http://h/ok " -> "http://h/ok"
      [] OTHER -> text

\* the entries, skipping a loc whose stripped text is empty
RECURSIVE ExtractUrlsSkipBlank(_)
ExtractUrlsSkipBlank(url_tags) ==
    IF url_tags = <<>> THEN <<>>
    ELSE IF Strip(Head(url_tags)) # ""
         THEN <<[loc |-> Strip(Head(url_tags))]>> \o ExtractUrlsSkipBlank(Tail(url_tags))
         ELSE ExtractUrlsSkipBlank(Tail(url_tags))

\* _parse_sitemap: the entries of a regular sitemap
RECURSIVE ExtractUrls(_)
ExtractUrls(url_tags) ==
    IF url_tags = <<>> THEN <<>>
    ELSE IF Head(url_tags) # ""
         THEN <<[loc |-> Strip(Head(url_tags))]>> \o ExtractUrls(Tail(url_tags))
         ELSE ExtractUrls(Tail(url_tags))

\* _parse_sitemap reading a malformed body as a sitemap without entries
AfterParseLenient(v, body) ==
    IF body.wellformed /\ body.sitemaps # <<>>
    THEN [v EXCEPT !.pc = "children", !.tags = body.sitemaps, !.idx = 1]
    ELSE [v EXCEPT !.pc = "total", !.urls = ExtractUrls(body.urls)]

\* _parse_sitemap taking a document for an index only if a sitemap tag has a loc
AfterParseIndexNeedsLoc(v, body) ==
    IF ~body.wellformed THEN OnException(v, "ParseError")
    ELSE IF \E i \in 1..Len(body.sitemaps) : body.sitemaps[i] # ""
    THEN [v EXCEPT !.pc = "children", !.tags = body.sitemaps, !.idx = 1]
    ELSE [v EXCEPT !.pc = "total", !.urls = ExtractUrls(body.urls)]

\* _parse_sitemap, up to the choice between index and regular sitemap
AfterParse(v, body) ==
    IF ~body.wellformed THEN OnException(v, "ParseError")
    ELSE IF body.sitemaps # <<>>
    THEN [v EXCEPT !.pc = "children", !.tags = body.sitemaps, !.idx = 1]
    ELSE [v EXCEPT !.pc = "total", !.urls = ExtractUrls(body.urls)]

\* the merge leaving the loop when the child reported errors
MergeChildStopOnError(v, child_results) ==
    [v EXCEPT !.results.valid_urls   = @ + child_results.valid_urls,
              !.results.invalid_urls = @ + child_results.invalid_urls,
              !.results.total_urls   = @ + child_results.total_urls,
              !.results.errors       = @ \o child_results.errors,
              !.idx = IF child_results.errors # <<>> THEN Len(v.tags) + 1 ELSE @ + 1]

\* the merge putting the child's errors in front
MergeChildPrepend(v, child_results) ==
    [v EXCEPT !.results.valid_urls   = @ + child_results.valid_urls,
              !.results.invalid_urls = @ + child_results.invalid_urls,
              !.results.total_urls   = @ + child_results.total_urls,
              !.results.errors       = child_results.errors \o @,
              !.idx = @ + 1]

\* _parse_sitemap: merge of a child's results, then the next sitemap tag
MergeChild(v, child_results) ==
    [v EXCEPT !.results.valid_urls   = @ + child_results.valid_urls,
              !.results.invalid_urls = @ + child_results.invalid_urls,
              !.results.total_urls   = @ + child_results.total_urls,
              !.results.errors       = @ \o child_results.errors,
              !.idx = @ + 1]

\* what a future remembers of a request: not issued, raised, or a status
NoRequest == [exc |-> "none", status |-> 0]

Outcome(r) == [exc |-> r.exc, status |-> r.status]

\* the structure test on the scheme alone
StructureOkSchemeOnly(parsed) == parsed.scheme # ""

\* _check_url: all([parsed.scheme, parsed.netloc])
StructureOk(parsed) == parsed.scheme # "" /\ parsed.netloc # ""

\* the fallback without 403
FallbackStatusesNo403 == {405, 404}

\* _check_url: the statuses of HEAD after which GET is tried
FallbackStatuses == {405, 404, 403}

\* success as status 200 only
IsSuccess200Only(status) == status = 200

\* _check_url: 200 <= response.status_code < 300
IsSuccess(status) == 200 <= status /\ status < 300

\* a future whose call raised: the exception is kept for future.result()
Raised(f, exc) == [f EXCEPT !.state = "done", !.pc = "done", !.exc = exc]

\* _check_url: the counter to increment and the error to append, if any
Counting(f, target, err) == [f EXCEPT !.pc = "load", !.target = target, !.err = err]

\* _check_url: classification of the final response
Classify(f, status) ==
    IF IsSuccess(status)
    THEN Counting(f, "valid_urls", ErrorString("", "", 0, ""))
    ELSE Counting(f, "invalid_urls",
                  ErrorString("URL returned HTTP", f.url_data.loc, status, ""))

\* _check_url: what follows a request that returned or raised
AfterRequest(f, r, fallback) ==
    IF r.exc \in RequestExceptions
    THEN Counting(f, "invalid_urls",
                  ErrorString("Failed to connect to", f.url_data.loc, 0, r.exc))
    ELSE IF r.exc # "" THEN Raised(f, r.exc)
    ELSE IF fallback /\ r.status \in FallbackStatuses THEN [f EXCEPT !.pc = "get"]
    ELSE Classify(f, r.status)

\* _check_url, from its first line to the structure test
AfterUrlparse(f, parsed) ==
    IF parsed.raises # "" THEN Raised(f, parsed.raises)
    ELSE IF ~StructureOk(parsed)
    THEN Counting(f, "invalid_urls",
                  ErrorString("Invalid URL structure", f.url_data.loc, 0, ""))
    ELSE [f EXCEPT !.pc = "head"]

\* a future of the executor, as submitted
NewFuture(url_data) ==
    [ url_data |-> url_data,
      state    |-> "pending",
      pc       |-> "start",
      head     |-> NoRequest,
      get      |-> NoRequest,
      target   |-> "",
      err      |-> ErrorString("", "", 0, ""),
      tmp      |-> 0,
      is_valid |-> FALSE,
      exc      |-> "",
      collected |-> FALSE ]

\* _get_valid_urls
get_valid_urls(v) == SelectSeq(v.processed, LAMBDA url_data : url_data.is_valid)

\* submit_to_google_indexing: urls_to_submit
urls_to_submit(v) == [i \in 1..Len(get_valid_urls(v)) |-> get_valid_urls(v)[i].loc]

-----------------------------------------------------------------------------
(* The webs the model is run on *)

SitemapLocs == {"s0", "s1", "s2"}

Xml(body) == Response("", 200, "application/xml", body)
Html(body) == Response("", 200, "text/html", body)
Malformed == NoBody
Unused == Response("", 404, "", NoBody)

WebOf(r0, r1, r2) == [s \in SitemapLocs |-> CASE s = "s0" -> r0 [] s = "s1" -> r1 [] OTHER -> r2]

\* a regular sitemap at the root: at most one entry outside CoLocs
LeafWebs ==
    { WebOf(Xml(Document(<<>>, us)), Unused, Unused) :
        us \in { u \in SeqUpTo(LeafLocs, MaxUrls) :
                   Cardinality({i \in 1..Len(u) : u[i] \notin CoLocs}) <= 1 } }

\* the other answers for the root
RootWebs ==
    { WebOf(r, Unused, Unused) :
        r \in { Response("", 404, "text/html", NoBody),
                Response("", 500, "application/xml", Document(<<>>, <<"http://h/ok">>)),
                Response("", 204, "application/xml", Document(<<>>, <<"http://h/ok">>)),
                Response("Timeout", 0, "", NoBody),
                Response("ConnectionError", 0, "", NoBody),
                Xml(Malformed), Html(Malformed),
                Html(Document(<<>>, <<"http://h/ok", "http://h/err">>)),
                Response("", 200, "TEXT/XML", Document(<<>>, <<"http://h/ok">>)),
                Xml(Document(<<"">>, <<"http://h/ok">>)),
                Xml(Document(<<"", "">>, <<>>)) } }

ChildUrlsets ==
    { <<>>, <<"http://h/ok">>, <<"http://h/slow">>, <<"http://h/ok", "http://h/slow">>,
      <<"http://[bad">> }

ChildResponses ==
    { Xml(Document(<<>>, us)) : us \in ChildUrlsets }
    \cup { Response("", 404, "text/html", NoBody), Response("Timeout", 0, "", NoBody),
           Xml(Malformed), Html(Malformed), Html(Document(<<>>, <<"http://h/ok">>)) }

\* a sitemap index at the root, its children regular sitemaps or indexes
TreeWebs ==
    { WebOf(Xml(Document(tags, <<>>)), r1, r2) :
        tags \in SeqUpTo({"s1", "s2", ""}, MaxChildren) \ {<<>>},
        r1 \in ChildResponses \cup {Xml(Document(<<"s2">>, <<"http://h/ok">>))},
        r2 \in ChildResponses }

Webs == LeafWebs \cup RootWebs \cup TreeWebs

\* sitemap indexes that list themselves, directly or through a child
CyclicWebs ==
    { WebOf(Xml(Document(<<"s0">>, <<>>)), Unused, Unused),
      WebOf(Xml(Document(<<"s1">>, <<>>)), Xml(Document(<<"s0">>, <<>>)), Unused),
      WebOf(Xml(Document(<<"s1", "s0">>, <<>>)),
            Xml(Document(<<>>, <<"http://h/ok", "http://h/slow">>)), Unused),
      WebOf(Xml(Document(<<"s1">>, <<>>)), Xml(Document(<<"", "s2">>, <<>>)),
            Html(Document(<<"s1", "s2">>, <<>>))) }

-----------------------------------------------------------------------------
(* The state machine *)

Top == stack[Len(stack)]

SetTop(v) == [stack EXCEPT ![Len(stack)] = v]

Init ==
    /\ web \in Webs
    /\ \E w \in 1..MaxWorkers :
         stack = <<NewValidator("s0", DefaultTimeout, w, DefaultUserAgent)>>
    /\ futures = <<>>
    /\ fetched = <<>>
    /\ returned = <<>>
    /\ runs = 1

\* validate: requests.get of the sitemap, status and content type
Fetch ==
    /\ Top.pc = "fetch"
    /\ stack' = SetTop(AfterFetch(Top, web[Top.sitemap_url]))
    /\ fetched' = Append(fetched, Top.sitemap_url)
    /\ UNCHANGED <<web, futures, returned, runs>>

\* _parse_sitemap: ET.fromstring and the search for sitemap tags
Parse ==
    /\ Top.pc = "parse"
    /\ stack' = SetTop(AfterParse(Top, web[Top.sitemap_url].body))
    /\ UNCHANGED <<web, futures, fetched, returned, runs>>

\* a loc that is also not the sitemap of a validator on the stack
UsableLocUnvisited(loc) ==
    loc # "" /\ \A k \in 1..Len(stack) : stack[k].sitemap_url # loc

\* _parse_sitemap: loc is not None and loc.text
UsableLoc(loc) == loc # ""

\* _parse_sitemap: a sitemap tag without a usable loc
SkipChild ==
    /\ Top.pc = "children"
    /\ Top.idx <= Len(Top.tags)
    /\ ~UsableLoc(Top.tags[Top.idx])
    /\ stack' = SetTop([Top EXCEPT !.idx = @ + 1])
    /\ UNCHANGED <<web, futures, fetched, returned, runs>>

\* _parse_sitemap: child_validator = SitemapValidator(...); child_validator.validate()
CallChild ==
    /\ Top.pc = "children"
    /\ Top.idx <= Len(Top.tags)
    /\ UsableLoc(Top.tags[Top.idx])
    /\ Len(stack) < MaxDepth
    /\ stack' = Append(stack, NewValidator(Top.tags[Top.idx], Top.timeout,
                                           Top.max_workers, DefaultUserAgent))
    /\ futures' = <<>>
    /\ UNCHANGED <<web, fetched, returned, runs>>

\* the child's validate returns; _parse_sitemap merges its results
ReturnToParent ==
    /\ Len(stack) > 1
    /\ Top.pc = "return"
    /\ stack' = [SubSeq(stack, 1, Len(stack) - 1) EXCEPT
                    ![Len(stack) - 1] = MergeChild(@, Top.results)]
    /\ returned' = Append(returned, [sitemap_url |-> Top.sitemap_url,
                                     depth |-> Len(stack), results |-> Top.results])
    /\ futures' = <<>>
    /\ UNCHANGED <<web, fetched, runs>>

\* _parse_sitemap of an index: return urls (empty) after the last tag
EndChildren ==
    /\ Top.pc = "children"
    /\ Top.idx > Len(Top.tags)
    /\ stack' = SetTop([Top EXCEPT !.pc = "total", !.urls = <<>>])
    /\ UNCHANGED <<web, futures, fetched, returned, runs>>

\* validate: total_urls = len(urls); _validate_urls: submit every url
Dispatch ==
    /\ Top.pc = "total"
    /\ stack' = SetTop([Top EXCEPT !.results.total_urls = Len(Top.urls), !.pc = "join"])
    /\ futures' = [i \in 1..Len(Top.urls) |-> NewFuture(Top.urls[i])]
    /\ UNCHANGED <<web, fetched, returned, runs>>

Running == {j \in 1..Len(futures) : futures[j].state = "running"}

Pending == {j \in 1..Len(futures) : futures[j].state = "pending"}

\* a thread started for every queued call, whatever the number running
StartCheckUnbounded(i) ==
    /\ Top.pc = "join"
    /\ i \in Pending /\ \A j \in Pending : i <= j
    /\ futures' = [futures EXCEPT ![i] =
                     AfterUrlparse([@ EXCEPT !.state = "running"], urlparse(@.url_data.loc))]
    /\ UNCHANGED <<web, stack, fetched, returned, runs>>

\* a worker thread of the pool takes the oldest queued call and enters _check_url
StartCheck(i) ==
    /\ Top.pc = "join"
    /\ i \in Pending /\ \A j \in Pending : i <= j
    /\ Cardinality(Running) < Top.max_workers
    /\ futures' = [futures EXCEPT ![i] =
                     AfterUrlparse([@ EXCEPT !.state = "running"], urlparse(@.url_data.loc))]
    /\ UNCHANGED <<web, stack, fetched, returned, runs>>

\* _check_url: requests.head
DoHead(i) ==
    /\ futures[i].pc = "head"
    /\ LET r == NetHead(futures[i].url_data.loc) IN
         futures' = [futures EXCEPT ![i] = AfterRequest([@ EXCEPT !.head = Outcome(r)], r, TRUE)]
    /\ UNCHANGED <<web, stack, fetched, returned, runs>>

\* _check_url: requests.get after a HEAD that was refused
DoGet(i) ==
    /\ futures[i].pc = "get"
    /\ LET r == NetGet(futures[i].url_data.loc) IN
         futures' = [futures EXCEPT ![i] = AfterRequest([@ EXCEPT !.get = Outcome(r)], r, FALSE)]
    /\ UNCHANGED <<web, stack, fetched, returned, runs>>

\* self.results[target] += 1: the read of the counter
LoadCounter(i) ==
    /\ futures[i].pc = "load"
    /\ futures' = [futures EXCEPT ![i].tmp = Top.results[futures[i].target],
                                  ![i].pc = "store"]
    /\ UNCHANGED <<web, stack, fetched, returned, runs>>

\* self.results[target] += 1: the write of the counter
StoreCounter(i) ==
    /\ futures[i].pc = "store"
    /\ stack' = SetTop([Top EXCEPT !.results[futures[i].target] = futures[i].tmp + 1])
    /\ futures' = [futures EXCEPT
                     ![i].is_valid = (futures[i].target = "valid_urls"),
                     ![i].pc = IF futures[i].target = "valid_urls" THEN "record" ELSE "error"]
    /\ UNCHANGED <<web, fetched, returned, runs>>

\* self.results["errors"].append(...) of an invalid URL
AppendUrlError(i) ==
    /\ futures[i].pc = "error"
    /\ stack' = SetTop(AppendError(Top, futures[i].err))
    /\ futures' = [futures EXCEPT ![i].pc = "record"]
    /\ UNCHANGED <<web, fetched, returned, runs>>

\* self._all_processed_urls.append(url_result); the call returns
RecordUrl(i) ==
    /\ futures[i].pc = "record"
    /\ stack' = SetTop([Top EXCEPT !.processed =
                          Append(@, [loc |-> futures[i].url_data.loc,
                                     is_valid |-> futures[i].is_valid])])
    /\ futures' = [futures EXCEPT ![i].pc = "done", ![i].state = "done"]
    /\ UNCHANGED <<web, fetched, returned, runs>>

\* _validate_urls: as_completed yields a finished future; future.result()
Collect(i) ==
    /\ Top.pc = "join"
    /\ futures[i].state = "done" /\ ~futures[i].collected
    /\ futures' = [futures EXCEPT ![i].collected = TRUE]
    /\ stack' = SetTop(IF futures[i].exc # ""
                       THEN AppendError(Top, ErrorString("Error during URL validation",
                                                        "", 0, futures[i].exc))
                       ELSE Top)
    /\ UNCHANGED <<web, fetched, returned, runs>>

\* _validate_urls ending at the first finished future
JoinOnFirst ==
    /\ Top.pc = "join"
    /\ futures = <<>> \/ \E j \in 1..Len(futures) : futures[j].collected
    /\ stack' = SetTop([Top EXCEPT !.pc = "return"])
    /\ UNCHANGED <<web, futures, fetched, returned, runs>>

\* _validate_urls ends when every future was yielded; validate returns self.results
Join ==
    /\ Top.pc = "join"
    /\ \A j \in 1..Len(futures) : futures[j].collected
    /\ stack' = SetTop([Top EXCEPT !.pc = "return"])
    /\ UNCHANGED <<web, futures, fetched, returned, runs>>

\* main: results = validator.validate()
Finish ==
    /\ Len(stack) = 1
    /\ Top.pc = "return"
    /\ stack' = SetTop([Top EXCEPT !.pc = "done"])
    /\ returned' = Append(returned, [sitemap_url |-> Top.sitemap_url,
                                     depth |-> 1, results |-> Top.results])
    /\ UNCHANGED <<web, futures, fetched, runs>>

Worker(i) ==
    \/ StartCheck(i) \/ DoHead(i) \/ DoGet(i) \/ LoadCounter(i) \/ StoreCounter(i)
    \/ AppendUrlError(i) \/ RecordUrl(i)

Next ==
    \/ Fetch \/ Parse \/ SkipChild \/ CallChild \/ ReturnToParent \/ EndChildren
    \/ Dispatch \/ Join \/ Finish
    \/ \E i \in 1..Len(futures) : Worker(i) \/ Collect(i)


Spec == Init /\ [][Next]_vars

\* the runs with one worker thread and page URLs that urlparse accepts
InitSerial ==
    /\ Init
    /\ stack[1].max_workers = 1
    /\ \A u \in SitemapLocs : \A i \in 1..Len(web[u].body.urls) :
          urlparse(Strip(web[u].body.urls[i])).raises = ""

SpecSerial == InitSerial /\ [][Next]_vars

\* the runs over every web, those with a cycle included, each step eventually taken
InitDeep ==
    /\ web \in { w \in Webs : Range(w["s0"].body.urls) \subseteq CoLocs \cup {"http://[bad"} }
                \cup CyclicWebs
    /\ \E w \in 1..MaxWorkers :
         stack = <<NewValidator("s0", DefaultTimeout, w, DefaultUserAgent)>>
    /\ futures = <<>>
    /\ fetched = <<>>
    /\ returned = <<>>
    /\ runs = 1

SpecDeep == InitDeep /\ [][Next]_vars /\ WF_vars(Next)

\* the runs of a validator that main configures
InitConfigured ==
    /\ web \in RootWebs \cup TreeWebs
    /\ \E w \in 1..MaxWorkers, t \in {DefaultTimeout, 3},
          ua \in {DefaultUserAgent, "custom-agent/2.0"} :
         stack = <<NewValidator("s0", t, w, ua)>>
    /\ futures = <<>>
    /\ fetched = <<>>
    /\ returned = <<>>
    /\ runs = 1

SpecConfigured == InitConfigured /\ [][Next]_vars

\* validate() called once more on the validator that main holds
Revalidate ==
    /\ Len(stack) = 1
    /\ Top.pc = "done"
    /\ runs < MaxRuns
    /\ runs' = runs + 1
    /\ stack' = SetTop([Top EXCEPT !.pc = "fetch"])
    /\ UNCHANGED <<web, futures, fetched, returned>>

NextRevalidate == Next \/ Revalidate

SpecRevalidate == Init /\ [][NextRevalidate]_vars

-----------------------------------------------------------------------------
(* Vocabulary of the properties *)

\* main holds the report of the root validator
RootDone == Len(stack) = 1 /\ stack[1].pc = "done"

Root == stack[1]

\* the fetch of the sitemap at url answers 200
FetchOk(url) == web[url].exc = "" /\ web[url].status = 200

IsUrlsetDoc(url) ==
    FetchOk(url) /\ web[url].body.wellformed /\ web[url].body.sitemaps = <<>>

IsIndexDoc(url) ==
    FetchOk(url) /\ web[url].body.wellformed /\ web[url].body.sitemaps # <<>>

\* the child sitemaps an index refers to
ChildLocs(url) == Range(web[url].body.sitemaps) \ {""}

\* the reports returned to the root validator by its children, in order
ChildReports == SelectSeq(returned, LAMBDA r : r.depth = 2)

Counter(reports, name) == SumSeq([i \in 1..Len(reports) |-> reports[i].results[name]])

\* the sitemaps validate is called on, starting from url
RECURSIVE Reached(_)
Reached(url) ==
    {url} \cup (IF IsIndexDoc(url) THEN UNION {Reached(c) : c \in ChildLocs(url)} ELSE {})

\* the number of page entries of the whole tree under url
RECURSIVE LeafCount(_)
RECURSIVE LeafCountOfTags(_)
LeafCount(url) ==
    IF IsUrlsetDoc(url) THEN Len(ExtractUrls(web[url].body.urls))
    ELSE IF IsIndexDoc(url) THEN LeafCountOfTags(web[url].body.sitemaps)
    ELSE 0
LeafCountOfTags(tags) ==
    IF tags = <<>> THEN 0
    ELSE (IF Head(tags) = "" THEN 0 ELSE LeafCount(Head(tags))) + LeafCountOfTags(Tail(tags))

-----------------------------------------------------------------------------
(* C1: the report of a sitemap index whose children are urlsets has          *)
(* total_urls, valid_urls and invalid_urls equal to the sums of the          *)
(* children's counters (two children reporting 2/1/1 give 4/2/2).            *)
C1_IndexSumsChildren ==
    (RootDone /\ IsIndexDoc("s0") /\ \A c \in ChildLocs("s0") : IsUrlsetDoc(c))
    => /\ Root.results.total_urls = Counter(ChildReports, "total_urls")
       /\ Root.results.valid_urls = Counter(ChildReports, "valid_urls")
       /\ Root.results.invalid_urls = Counter(ChildReports, "invalid_urls")

(* C2: when validate returns for a tree in which no document fails to       *)
(* parse, valid_urls + invalid_urls = total_urls in the returned report.     *)
C2_CountersReconcile ==
    (RootDone /\ \A u \in Reached("s0") : FetchOk(u) => web[u].body.wellformed)
    => Root.results.valid_urls + Root.results.invalid_urls = Root.results.total_urls

(* C3: after validate returns, the outcome list of the validator holds one  *)
(* outcome per leaf URL of the whole tree, and the URLs selected for         *)
(* submission are as many as the report's valid_urls.                        *)
C3_SubmissionMatchesReport ==
    RootDone => /\ Len(Root.processed) = LeafCount("s0")
                /\ Len(urls_to_submit(Root)) = Root.results.valid_urls

(* C4: a second validate() on the same validator, the network unchanged,    *)
(* returns the same total_urls, valid_urls and invalid_urls as the first.    *)
C4_SecondRunSameCounters ==
    (RootDone /\ runs = 2 /\ IsUrlsetDoc("s0"))
    => \A name \in {"total_urls", "valid_urls", "invalid_urls"} :
          returned[Len(returned)].results[name] = returned[1].results[name]

(* C5: _check_url never raises: every finished check has produced one       *)
(* outcome record and incremented one of the two counters, and a check that  *)
(* did not find the URL valid has appended an error string for it.           *)
C5_CheckNeverRaises ==
    \A i \in 1..Len(futures) :
        futures[i].state = "done"
        => /\ futures[i].exc = ""
           /\ futures[i].target \in {"valid_urls", "invalid_urls"}
           /\ ~futures[i].is_valid => futures[i].err \in Range(Top.results.errors)
           /\ Len(Top.processed) = Cardinality({j \in 1..Len(futures) : futures[j].state = "done"})

(* C6: every child of an index with a non-empty loc is fetched and          *)
(* validated, in document order, whatever happened to the children before   *)
(* it; a child that fails to fetch or parse contributes error strings only. *)
RECURSIVE ExpectedFetches(_)
RECURSIVE ExpectedFetchesOfTags(_)
ExpectedFetches(url) ==
    <<url>> \o (IF IsIndexDoc(url) THEN ExpectedFetchesOfTags(web[url].body.sitemaps)
                ELSE <<>>)
ExpectedFetchesOfTags(tags) ==
    IF tags = <<>> THEN <<>>
    ELSE (IF Head(tags) = "" THEN <<>> ELSE ExpectedFetches(Head(tags)))
         \o ExpectedFetchesOfTags(Tail(tags))

C6_EveryChildFetchedInOrder ==
    /\ Len(fetched) <= Len(ExpectedFetches("s0"))
    /\ fetched = SubSeq(ExpectedFetches("s0"), 1, Len(fetched))
    /\ RootDone => fetched = ExpectedFetches("s0")
    /\ \A k \in 1..Len(returned) :
          LET r == returned[k] IN
          (~FetchOk(r.sitemap_url) \/ ~web[r.sitemap_url].body.wellformed)
          => /\ r.results.total_urls = 0 /\ r.results.valid_urls = 0
             /\ r.results.invalid_urls = 0 /\ r.results.errors # <<>>

\* an index whose first child failed to fetch and whose second child was validated
C6_Witness ==
    /\ RootDone /\ IsIndexDoc("s0")
    /\ web["s0"].body.sitemaps = <<"s1", "s2">>
    /\ ~FetchOk("s1") /\ IsUrlsetDoc("s2")
    /\ fetched = <<"s0", "s1", "s2">>
    /\ Root.results.valid_urls = 1

(* C7: a validator whose fetch answered a status other than 200 or raised  *)
(* returns all three counters zero and exactly one error string, and does   *)
(* not parse, call a child or check a leaf URL.                             *)
C7_FetchFailureReport ==
    \A k \in 1..Len(stack) :
        LET v == stack[k]
            r == web[v.sitemap_url]
        IN  (r.exc # "" \/ r.status # 200)
            => /\ v.pc \in {"fetch", "return", "done"}
               /\ k = Len(stack)
               /\ futures = <<>>
               /\ v.tags = <<>> /\ v.urls = <<>>
               /\ v.pc # "fetch"
                  => /\ v.results.total_urls = 0 /\ v.results.valid_urls = 0
                     /\ v.results.invalid_urls = 0 /\ Len(v.results.errors) = 1

\* a validate that returns after a fetch answered by a status other than 200
C7_Witness ==
    /\ Top.pc = "return"
    /\ web[Top.sitemap_url].exc = "" /\ web[Top.sitemap_url].status \notin {200, 404}
    /\ Len(Top.results.errors) = 1

(* C8 as stated: a validator whose fetched body is malformed XML returns   *)
(* all three counters zero and exactly one error string, and dispatches no  *)
(* leaf check.                                                              *)
C8_MalformedOneError ==
    (Top.pc \in {"return", "done"} /\ FetchOk(Top.sitemap_url)
        /\ ~web[Top.sitemap_url].body.wellformed)
    => /\ Top.results.total_urls = 0 /\ Top.results.valid_urls = 0
       /\ Top.results.invalid_urls = 0
       /\ Len(Top.results.errors) = 1
       /\ futures = <<>>

(* C8 amended: a validator whose fetched body is malformed XML returns all *)
(* three counters zero and dispatches no leaf check; the last error string  *)
(* reports the parse failure and is preceded only by the content-type       *)
(* warning, when the Content-Type does not mention xml.                     *)
C8_MalformedParseError ==
    (Top.pc \in {"return", "done"} /\ FetchOk(Top.sitemap_url)
        /\ ~web[Top.sitemap_url].body.wellformed)
    => LET errors == Top.results.errors
           xml == web[Top.sitemap_url].ctype \in {"application/xml", "text/xml", "TEXT/XML"}
       IN  /\ Top.results.total_urls = 0 /\ Top.results.valid_urls = 0
           /\ Top.results.invalid_urls = 0
           /\ futures = <<>>
           /\ Len(errors) = IF xml THEN 1 ELSE 2
           /\ errors[Len(errors)].kind = "Validation failed"
           /\ errors[Len(errors)].cause = "ParseError"
           /\ ~xml => errors[1].kind = "Sitemap is not XML"

\* a validate that returns after a malformed body served as text/html
C8_Witness ==
    /\ Top.pc = "return" /\ FetchOk(Top.sitemap_url)
    /\ ~web[Top.sitemap_url].body.wellformed
    /\ web[Top.sitemap_url].ctype = "text/html"
    /\ Len(Top.results.errors) = 2

(* C9: GET is issued exactly when HEAD answered 403, 404 or 405, and then  *)
(* the status of GET alone classifies the URL: HEAD 404 with GET 200 is     *)
(* counted valid without an error string.                                   *)
C9_HeadGetFallback ==
    \A i \in 1..Len(futures) :
        LET f == futures[i]
            refused == f.head.exc = "" /\ f.head.status \in {403, 404, 405}
        IN  /\ f.get # NoRequest => refused
            /\ (refused /\ f.pc # "get") => f.get # NoRequest
            /\ (f.get # NoRequest /\ f.get.exc = "")
               => f.target = IF 200 <= f.get.status /\ f.get.status < 300
                             THEN "valid_urls" ELSE "invalid_urls"
            /\ (refused /\ f.state = "done" /\ f.get.exc = "" /\ f.get.status = 200)
               => /\ f.is_valid
                  /\ \A e \in Range(Top.results.errors) : e.url # f.url_data.loc
                  /\ [loc |-> f.url_data.loc, is_valid |-> TRUE] \in Range(Top.processed)
                  /\ Len(futures) = 1 => /\ Top.results.valid_urls = 1
                                         /\ Top.results.invalid_urls = 0

\* a finished check of a URL answering 404 to HEAD and 200 to GET
C9_Witness ==
    \E i \in 1..Len(futures) :
        /\ futures[i].state = "done"
        /\ futures[i].head = [exc |-> "", status |-> 404]
        /\ futures[i].get = [exc |-> "", status |-> 200]
        /\ futures[i].is_valid

(* C10: a leaf location without a scheme or without a host is counted      *)
(* invalid with the structural error string, and neither HEAD nor GET is    *)
(* issued for it.                                                           *)
C10_StructuralRejection ==
    \A i \in 1..Len(futures) :
        LET f == futures[i]
            parsed == urlparse(f.url_data.loc)
        IN  (parsed.raises = "" /\ (parsed.scheme = "" \/ parsed.netloc = ""))
            => /\ f.head = NoRequest /\ f.get = NoRequest
               /\ f.pc \notin {"head", "get"}
               /\ f.state # "pending"
                  => /\ f.target = "invalid_urls"
                     /\ f.err = ErrorString("Invalid URL structure", f.url_data.loc, 0, "")
               /\ f.state = "done"
                  => /\ ~f.is_valid /\ f.exc = ""
                     /\ f.err \in Range(Top.results.errors)
                     /\ [loc |-> f.url_data.loc, is_valid |-> FALSE] \in Range(Top.processed)
                     /\ Len(futures) = 1 => /\ Top.results.invalid_urls = 1
                                            /\ Top.results.valid_urls = 0

\* a finished check of "not-a-url"
C10_Witness ==
    \E i \in 1..Len(futures) :
        /\ futures[i].url_data.loc = "not-a-url"
        /\ futures[i].state = "done"
        /\ futures[i].err.kind = "Invalid URL structure"
        /\ Top.results.invalid_urls >= 1

(* C11: validate returns only after every dispatched leaf check has       *)
(* completed: when it returns no future is pending or running, every future *)
(* was yielded by as_completed, and each has left its outcome record (and   *)
(* error string, if invalid) or its exception in the report.                *)
C11_ReturnsAfterJoin ==
    Top.pc \in {"return", "done"}
    => /\ Len(futures) = Len(Top.urls)
       /\ Len(Top.processed) = Cardinality({i \in 1..Len(futures) : futures[i].exc = ""})
       /\ \A i \in 1..Len(futures) :
             LET f == futures[i] IN
             /\ f.state = "done" /\ f.pc = "done" /\ f.collected
             /\ f.exc = ""
                => /\ f.target \in {"valid_urls", "invalid_urls"}
                   /\ [loc |-> f.url_data.loc, is_valid |-> f.is_valid] \in Range(Top.processed)
                   /\ ~f.is_valid => f.err \in Range(Top.results.errors)
             /\ f.exc # ""
                => ErrorString("Error during URL validation", "", 0, f.exc)
                      \in Range(Top.results.errors)

\* validate returning after a batch of two checks run by two workers
C11_Witness ==
    /\ Top.pc = "return" /\ Top.max_workers = 2
    /\ Len(futures) = 2
    /\ \A i \in 1..Len(futures) : futures[i].collected

(* C12: for a well-formed urlset with N <url><loc> entries of non-empty    *)
(* text, N leaf checks are dispatched and the report has total_urls = N.    *)
EntriesWithText(url) ==
    Cardinality({i \in 1..Len(web[url].body.urls) : web[url].body.urls[i] # ""})

C12_TotalIsEntryCount ==
    /\ (IsUrlsetDoc(Top.sitemap_url) /\ Top.pc \in {"join", "return", "done"})
       => /\ Top.results.total_urls = EntriesWithText(Top.sitemap_url)
          /\ Len(futures) = EntriesWithText(Top.sitemap_url)
    /\ \A k \in 1..Len(returned) :
          IsUrlsetDoc(returned[k].sitemap_url)
          => returned[k].results.total_urls = EntriesWithText(returned[k].sitemap_url)

\* a returned urlset of two entries with text, one of them blank
C12_Witness ==
    /\ RootDone /\ IsUrlsetDoc("s0")
    /\ " " \in Range(web["s0"].body.urls)
    /\ Root.results.total_urls = 2

(* C13: the workers' increments of valid_urls / invalid_urls are           *)
(* serialized: when the pool has joined, valid_urls + invalid_urls is the   *)
(* number of checks that completed.                                         *)
C13_NoLostUpdate ==
    (IsUrlsetDoc(Top.sitemap_url) /\ Top.pc \in {"return", "done"})
    => Top.results.valid_urls + Top.results.invalid_urls
          = Cardinality({i \in 1..Len(futures) : futures[i].exc = ""})

(* C14: the leaf checks in flight never exceed max_workers of the          *)
(* top-level validator, at any depth, and no check is pending or running    *)
(* while a validator fetches, parses or walks its sitemap tags.             *)
C14_BoundedConcurrency ==
    /\ Cardinality(Running) <= Root.max_workers
    /\ \A k \in 1..Len(stack) : stack[k].max_workers = Root.max_workers
    /\ Top.pc # "join" => \A i \in 1..Len(futures) : futures[i].state = "done"

\* a child sitemap with one check running and one queued behind it
C14_Witness ==
    /\ Len(stack) = 2 /\ Top.max_workers = 1
    /\ Cardinality(Running) = 1 /\ Pending # {}

(* C15: a leaf URL that passes the structural check is counted valid iff    *)
(* the final response (of GET when the fallback applied, else of HEAD) has   *)
(* a status in [200,300); any other status and any request exception counts  *)
(* it invalid with exactly one error string; a valid URL appends none.       *)
ErrorsAbout(loc) ==
    {k \in 1..Len(Top.results.errors) : Top.results.errors[k].url = loc}

C15_Classification ==
    \A i \in 1..Len(futures) :
        LET f == futures[i]
            loc == f.url_data.loc
            parsed == urlparse(loc)
            final == IF f.get # NoRequest THEN f.get ELSE f.head
            ok == final.exc = "" /\ 200 <= final.status /\ final.status < 300
        IN  (parsed.raises = "" /\ parsed.scheme # "" /\ parsed.netloc # ""
                /\ f.state = "done")
            => /\ final # NoRequest
               /\ f.exc = ""
               /\ f.is_valid <=> ok
               /\ f.target = IF ok THEN "valid_urls" ELSE "invalid_urls"
               /\ [loc |-> loc, is_valid |-> ok] \in Range(Top.processed)
               /\ ok => ErrorsAbout(loc) = {}
               /\ ~ok => /\ f.err \in Range(Top.results.errors)
                         /\ f.err = IF final.exc = ""
                                    THEN ErrorString("URL returned HTTP", loc, final.status, "")
                                    ELSE ErrorString("Failed to connect to", loc, 0, final.exc)
               /\ Cardinality(ErrorsAbout(loc))
                    = Cardinality({j \in 1..Len(futures) :
                                     /\ futures[j].url_data.loc = loc
                                     /\ futures[j].target = "invalid_urls"
                                     /\ futures[j].pc \in {"record", "done"}})
               /\ Len(futures) = 1
                  => /\ Top.results.valid_urls = (IF ok THEN 1 ELSE 0)
                     /\ Top.results.invalid_urls = (IF ok THEN 0 ELSE 1)

\* a joined batch with a URL answering 204 and a URL timing out
C15_Witness ==
    /\ Top.pc = "return"
    /\ \E i, j \in 1..Len(futures) :
          /\ futures[i].head = [exc |-> "", status |-> 204] /\ futures[i].is_valid
          /\ futures[j].head = [exc |-> "Timeout", status |-> 0] /\ ~futures[j].is_valid
          /\ Cardinality(ErrorsAbout(futures[j].url_data.loc)) = 1

(* C16: in the report of an index the error strings of its children appear *)
(* child by child, in the order the children are listed.                     *)
RECURSIVE ConcatErrors(_)
ConcatErrors(reports) ==
    IF reports = <<>> THEN <<>>
    ELSE Head(reports).results.errors \o ConcatErrors(Tail(reports))

C16_ErrorsInChildOrder ==
    /\ (IsIndexDoc("s0") /\ Root.pc \in {"children", "total", "join", "return", "done"})
       => Root.results.errors
            = (IF web["s0"].ctype = "text/html"
               THEN <<ErrorString("Sitemap is not XML", "", 0, "text/html")>> ELSE <<>>)
              \o ConcatErrors(ChildReports)
    /\ \A k \in 1..Len(ChildReports) :
          ChildReports[k].sitemap_url
            = SelectSeq(web["s0"].body.sitemaps, LAMBDA t : t # "")[k]

\* an index returned with two children whose error strings differ
C16_Witness ==
    /\ RootDone /\ Len(ChildReports) = 2
    /\ ChildReports[1].results.errors # <<>>
    /\ ChildReports[2].results.errors # <<>>
    /\ ChildReports[1].results.errors # ChildReports[2].results.errors
    /\ Len(Root.results.errors) >= 2

C18_NonXmlIsWarning ==
    LET url == Top.sitemap_url
        errors == Top.results.errors
        targeting(name) == {i \in 1..Len(futures) : futures[i].target = name}
    IN  (FetchOk(url) /\ web[url].ctype = "text/html" /\ Top.pc # "fetch")
        => /\ Cardinality({k \in 1..Len(errors) : errors[k].kind = "Sitemap is not XML"}) = 1
           /\ errors[1] = ErrorString("Sitemap is not XML", "", 0, "text/html")
           /\ (IsUrlsetDoc(url) /\ Top.pc \in {"join", "return", "done"})
              => /\ Top.results.total_urls = EntriesWithText(url)
                 /\ Len(futures) = EntriesWithText(url)
           /\ (IsUrlsetDoc(url) /\ Top.pc \in {"return", "done"})
              => /\ Len(errors) = 1 + Cardinality(targeting("invalid_urls"))
                 /\ \A i \in 1..Len(futures) :
                       futures[i].is_valid <=> futures[i].url_data.loc = "http://h/ok"
                 /\ \A name \in {"valid_urls", "invalid_urls"} :
                       Cardinality(targeting(name)) <= 1
                       => Top.results[name] = Cardinality(targeting(name))

\* a urlset served as text/html, returned with its two URLs checked
C18_Witness ==
    /\ Top.pc = "return" /\ web[Top.sitemap_url].ctype = "text/html"
    /\ Top.results.total_urls = 2
    /\ Top.results.valid_urls = 1 /\ Top.results.invalid_urls = 1
    /\ Len(Top.results.errors) = 2

(* C19: every run over a finite acyclic sitemap tree ends with validate    *)
(* returning; nothing guards the recursion, so when an index lists itself,   *)
(* directly or through its children, the root validate never returns and      *)
(* the stack of validators grows to whatever depth is allowed.                *)
Successors(S) == S \cup UNION {ChildLocs(a) : a \in {u \in S : IsIndexDoc(u)}}

ReachedWithin(S) == Successors(Successors(Successors(S)))

Cyclic ==
    \E u \in ReachedWithin({"s0"}) :
        IsIndexDoc(u) /\ u \in ReachedWithin(ChildLocs(u))

C20_ConfigInherited ==
    \A k \in 1..Len(stack) :
        /\ stack[k].timeout = Root.timeout
        /\ stack[k].max_workers = Root.max_workers
        /\ stack[k].headers = Root.headers

====
